---- MODULE Spec2Model ----
(***************************************************************************)
(* Result rows of lib/sqlalchemy/engine/row.py: BaseRow, Row, RowMapping   *)
(* and the pickling reconstructor.  A row holds a reference to its parent  *)
(* (the result-set metadata), the processed value tuple, a reference to    *)
(* the parent's keymap and a key style.  Python positions are 0-based;     *)
(* the tuple of values is a TLA+ sequence, so position i is element i + 1. *)
(***************************************************************************)
EXTENDS Integers, Sequences, FiniteSets

VARIABLES row, last

vars == <<row, last>>

(***************************************************************************)
(* Bounds of the model.                                                    *)
(***************************************************************************)
\* raw column values are drawn from 0 .. MaxVal
MaxVal == 1

Values == 0 .. MaxVal

(***************************************************************************)
(* Module constants.                                                       *)
(***************************************************************************)
MD_INDEX == 0

KEY_INTEGER_ONLY == 0

KEY_OBJECTS_ONLY == 1

KEY_OBJECTS_BUT_WARN == 2

KEY_OBJECTS_NO_WARN == 3

KeyStyles ==
  {KEY_INTEGER_ONLY, KEY_OBJECTS_ONLY, KEY_OBJECTS_BUT_WARN, KEY_OBJECTS_NO_WARN}

\* Python's None, where it stands for a column name
None == "None"

(***************************************************************************)
(* Keys a caller can hand to the indexing operators.  kind "int" is any    *)
(* object whose class has int in its __mro__; "float" is a float with an   *)
(* integral value (it hashes and compares like that int); "str" a column   *)
(* name; "obj" the column object of the result column at position val;     *)
(* "col" a column object that is not among the result columns and is       *)
(* named val; "slice" the slice val[1] : val[2]; "none" is None.           *)
(***************************************************************************)
IntKey(i) == [kind |-> "int", val |-> i]

FloatKey(i) == [kind |-> "float", val |-> i]

StrKey(s) == [kind |-> "str", val |-> s]

ObjKey(i) == [kind |-> "obj", val |-> i]

ColKey(s) == [kind |-> "col", val |-> s]

SliceKey(lo, hi) == [kind |-> "slice", val |-> <<lo, hi>>]

NoneKey == [kind |-> "none", val |-> None]

\* the key a column name is looked up by (a name may be None)
NameKey(k) == IF k = None THEN NoneKey ELSE StrKey(k)

\* row.py:116, row.py:162   int in key.__class__.__mro__
IsIntKey(key) == key.kind = "int"

(***************************************************************************)
(* Outcomes of a call: a returned value or a raised exception, with the    *)
(* number of times parent._warn_for_nonint was called on the way.          *)
(***************************************************************************)
Return(v, w) == [status |-> "return", value |-> v, exc |-> "", warned |-> w]

Raise(e, w) == [status |-> "raise", value |-> <<>>, exc |-> e, warned |-> w]

\* the class of an error: IndexError, TypeError, KeyError are Python's;
\* NoSuchColumnError derives from KeyError; AmbiguousName stands for the
\* InvalidRequestError raised for an ambiguous column name
ExcClass(e) ==
  CASE e = "TypeError" -> "type-mismatch"
    [] e \in {"KeyError", "NoSuchColumnError"} -> "key-not-found"
    [] e = "AmbiguousName" -> "ambiguous-name"
    [] e = "IndexError" -> "out-of-range"
    [] OTHER -> "other"

(***************************************************************************)
(* The parent: the per-result-set metadata.  It is a collaborator of the   *)
(* rows; what the rows rely on is its ordered column names (keys), its     *)
(* keymap and its callbacks.                                               *)
(***************************************************************************)
\* the column names of the result sets of the model, one entry per parent
ResultSetKeys ==
  << <<"id", "name">>,
     <<"name", "id">>,
     <<"id", "id">>,
     <<"id", None>>,
     <<"id">>,
     <<"id", "name", "id">> >>

ParentIds == DOMAIN ResultSetKeys

\* parent.keys
ParentKeys(p) == ResultSetKeys[p]

\* a resolution record; rec[MD_INDEX] is the position or None
IndexRec(i) == << [isNone |-> FALSE, val |-> i] >>

AmbiguousRec == << [isNone |-> TRUE, val |-> 0] >>

\* the 0-based positions of the columns called name
PositionsOf(keys, name) == {i \in 0 .. Len(keys) - 1 : keys[i + 1] = name}

\* the keymap built for the column names keys: every position, every column
\* object and every non-None name is a key; a name shared by several columns
\* maps to the ambiguous record
BuildKeymap(keys) ==
  LET n == Len(keys)
      names == {keys[i] : i \in 1 .. n} \ {None}
      dom == {IntKey(i) : i \in 0 .. n - 1}
               \cup {ObjKey(i) : i \in 0 .. n - 1}
               \cup {StrKey(s) : s \in names}
  IN  [k \in dom |->
         IF k.kind = "str"
           THEN IF Cardinality(PositionsOf(keys, k.val)) = 1
                  THEN IndexRec(CHOOSE i \in PositionsOf(keys, k.val) : TRUE)
                  ELSE AmbiguousRec
           ELSE IndexRec(k.val)]

Keymaps == [p \in ParentIds |-> BuildKeymap(ResultSetKeys[p])]

\* parent._keymap
ParentKeymap(p) == Keymaps[p]

\* parent._key_fallback(key, err): a column object that is not a result
\* column but carries the name of one resolves to that name's record; every
\* other key raises NoSuchColumnError
ParentKeyFallback(p, key) ==
  IF key.kind = "col" /\ StrKey(key.val) \in DOMAIN ParentKeymap(p)
    THEN [found |-> TRUE, rec |-> ParentKeymap(p)[StrKey(key.val)], exc |-> ""]
    ELSE [found |-> FALSE, rec |-> AmbiguousRec, exc |-> "NoSuchColumnError"]

\* parent._raise_for_nonint(key): always raises TypeError
ParentRaiseForNonint(p, key) == "TypeError"

\* parent._raise_for_ambiguous_column_name(rec): always raises
ParentRaiseForAmbiguousColumnName(p, rec) == "AmbiguousName"

\* parent._warn_for_nonint(key): emits one deprecation warning and returns
ParentWarnForNonint(p, key) == 1

\* parent._has_key(key)
ParentHasKey(p, key) == key.kind # "slice" /\ key \in DOMAIN ParentKeymap(p)

(***************************************************************************)
(* Python built-ins the rows use on the tuple and on the dict.             *)
(***************************************************************************)
\* data[i] for an integer i: negative positions count from the end
TupleGetItem(data, i) ==
  LET n == Len(data)
  IN  IF 0 <= i /\ i < n THEN Return(data[i + 1], 0)
      ELSE IF 0 - n <= i /\ i < 0 THEN Return(data[n + i + 1], 0)
      ELSE Raise("IndexError", 0)

\* tuple(data[lo:hi]) for 0 <= lo, hi
TupleGetSlice(data, lo, hi) ==
  LET n == Len(data)
      h == IF hi > n THEN n ELSE hi
  IN  IF lo >= h THEN <<>> ELSE SubSeq(data, lo + 1, h)

\* keymap[key]: a slice is unhashable (TypeError); a float with an integral
\* value finds the entry of the equal int; a missing key is a KeyError
DictGetItem(keymap, key) ==
  LET k == IF key.kind = "float" THEN IntKey(key.val) ELSE key
  IN  IF key.kind = "slice" THEN [status |-> "TypeError", rec |-> AmbiguousRec]
      ELSE IF k \in DOMAIN keymap THEN [status |-> "found", rec |-> keymap[k]]
      ELSE [status |-> "KeyError", rec |-> AmbiguousRec]

\* mdindex != key: an int equals an int or a float of the same value only
PyNotEqual(mdindex, key) == ~(key.kind \in {"int", "float"} /\ key.val = mdindex)

RECURSIVE TupleHashFrom(_, _)
TupleHashFrom(data, acc) ==
  IF data = <<>> THEN acc
  ELSE TupleHashFrom(Tail(data), (acc * 31 + Head(data) + 1) % (2 ^ 16))

\* hash(data): a function of the elements and their order
TupleHash(data) == TupleHashFrom(data, 7)

(***************************************************************************)
(* Processors: per-column conversion functions, or None for no conversion. *)
(***************************************************************************)
Processors == {None, "inc"}

\* proc(value)
ApplyProc(proc, value) == IF proc = "inc" THEN (value + 1) % (MaxVal + 1) ELSE value

Min(a, b) == IF a < b THEN a ELSE b

(***************************************************************************)
(* BaseRow                                                                 *)
(***************************************************************************)
\* a wrong ProcessData: every processor is applied a second time
ProcessData_twice(processors, data) ==
  IF processors # <<>>
    THEN [i \in 1 .. Min(Len(processors), Len(data)) |->
            IF processors[i] # None
              THEN ApplyProc(processors[i], ApplyProc(processors[i], data[i]))
              ELSE data[i]]
    ELSE data

\* row.py:71-79   the tuple built from zip(processors, data), or tuple(data)
ProcessData(processors, data) ==
  IF processors # <<>>
    THEN [i \in 1 .. Min(Len(processors), Len(data)) |->
            IF processors[i] # None THEN ApplyProc(processors[i], data[i]) ELSE data[i]]
    ELSE data

\* BaseRow.__init__(self, parent, processors, keymap, key_style, data)
BaseRow_init(cls, parent, processors, keymap, key_style, data) ==
  [cls |-> cls,
   _parent |-> parent,
   _data |-> ProcessData(processors, data),
   _keymap |-> keymap,
   _key_style |-> key_style]

\* a wrong _filter_on_values: the new row gets Row's default key style
BaseRow_filter_on_values_default_style(self, filters) ==
  BaseRow_init("Row", self._parent, filters, self._keymap, KEY_OBJECTS_BUT_WARN, self._data)

\* BaseRow._filter_on_values(self, filters)
BaseRow_filter_on_values(self, filters) ==
  BaseRow_init("Row", self._parent, filters, self._keymap, self._key_style, self._data)

\* BaseRow.__len__
BaseRow_len(self) == Len(self._data)

\* BaseRow.__hash__
BaseRow_hash(self) == TupleHash(self._data)

\* BaseRow._get_by_int_impl(self, key)
BaseRow_get_by_int_impl(self, key) == TupleGetItem(self._data, key)

\* a wrong resolution: the ambiguous record is not checked and reads column 0
GetByKeyResolved_unchecked(self, key, rec) ==
  LET mdindex == rec[MD_INDEX + 1]
  IN  IF self._key_style = KEY_OBJECTS_BUT_WARN /\ PyNotEqual(mdindex.val, key)
        THEN Return(self._data[mdindex.val + 1], ParentWarnForNonint(self._parent, key))
        ELSE Return(self._data[mdindex.val + 1], 0)

\* a wrong resolution: the warning does not compare the position with the key
GetByKeyResolved_always_warn(self, key, rec) ==
  LET mdindex == rec[MD_INDEX + 1]
  IN  IF mdindex.isNone
        THEN Raise(ParentRaiseForAmbiguousColumnName(self._parent, rec), 0)
        ELSE IF self._key_style = KEY_OBJECTS_BUT_WARN
               THEN Return(self._data[mdindex.val + 1], ParentWarnForNonint(self._parent, key))
               ELSE Return(self._data[mdindex.val + 1], 0)

\* a wrong resolution: the position found is off by one column
GetByKeyResolved_shifted(self, key, rec) ==
  LET mdindex == rec[MD_INDEX + 1]
      n == Len(self._data)
  IN  IF mdindex.isNone
        THEN Raise(ParentRaiseForAmbiguousColumnName(self._parent, rec), 0)
        ELSE IF self._key_style = KEY_OBJECTS_BUT_WARN /\ PyNotEqual(mdindex.val, key)
               THEN Return(self._data[((mdindex.val + 1) % n) + 1],
                           ParentWarnForNonint(self._parent, key))
               ELSE Return(self._data[((mdindex.val + 1) % n) + 1], 0)

\* row.py:136-143   the part of _get_by_key_impl after the record is found
GetByKeyResolved(self, key, rec) ==
  LET mdindex == rec[MD_INDEX + 1]
  IN  IF mdindex.isNone
        THEN Raise(ParentRaiseForAmbiguousColumnName(self._parent, rec), 0)
        ELSE IF self._key_style = KEY_OBJECTS_BUT_WARN /\ PyNotEqual(mdindex.val, key)
               THEN Return(self._data[mdindex.val + 1], ParentWarnForNonint(self._parent, key))
               ELSE Return(self._data[mdindex.val + 1], 0)

\* BaseRow._get_by_key_impl(self, key), which is also BaseRow.__getitem__
BaseRow_get_by_key_impl(self, key) ==
  IF IsIntKey(key) THEN TupleGetItem(self._data, key.val)
  ELSE IF self._key_style = KEY_INTEGER_ONLY
         THEN Raise(ParentRaiseForNonint(self._parent, key), 0)
  ELSE LET got == DictGetItem(self._keymap, key)
           fb == ParentKeyFallback(self._parent, key)
       IN  CASE got.status = "found" -> GetByKeyResolved(self, key, got.rec)
             [] got.status = "KeyError" ->
                  IF fb.found THEN GetByKeyResolved(self, key, fb.rec)
                  ELSE Raise(fb.exc, 0)
             [] got.status = "TypeError" ->
                  IF key.kind = "slice"
                    THEN Return(TupleGetSlice(self._data, key.val[1], key.val[2]), 0)
                    ELSE Raise("TypeError", 0)

\* row.py:157-166   the part of _get_by_key_impl_mapping after the record is found
GetByKeyMappingResolved(self, key, rec) ==
  LET mdindex == rec[MD_INDEX + 1]
  IN  IF mdindex.isNone
        THEN Raise(ParentRaiseForAmbiguousColumnName(self._parent, rec), 0)
        ELSE IF self._key_style = KEY_OBJECTS_ONLY /\ IsIntKey(key)
               THEN Raise("KeyError", 0)
               ELSE Return(self._data[mdindex.val + 1], 0)

\* BaseRow._get_by_key_impl_mapping(self, key), which is RowMapping.__getitem__
BaseRow_get_by_key_impl_mapping(self, key) ==
  LET got == DictGetItem(self._keymap, key)
      fb == ParentKeyFallback(self._parent, key)
  IN  CASE got.status = "found" -> GetByKeyMappingResolved(self, key, got.rec)
        [] got.status = "KeyError" ->
             IF fb.found THEN GetByKeyMappingResolved(self, key, fb.rec)
             ELSE Raise(fb.exc, 0)
        [] got.status = "TypeError" -> Raise("TypeError", 0)

(***************************************************************************)
(* Row, RowMapping and the reconstructor                                   *)
(***************************************************************************)
\* Row._default_key_style
Row_default_key_style == KEY_OBJECTS_BUT_WARN

\* RowMapping._default_key_style
RowMapping_default_key_style == KEY_OBJECTS_ONLY

\* a wrong _mapping: the view keeps the row's own key style
Row_mapping_own_style(self) ==
  BaseRow_init("RowMapping", self._parent, <<>>, self._keymap, self._key_style, self._data)

\* Row._mapping: the processors argument is None
Row_mapping(self) ==
  BaseRow_init("RowMapping", self._parent, <<>>, self._keymap,
               RowMapping_default_key_style, self._data)

\* Row.__getstate__
Row_getstate(self) ==
  [_parent |-> self._parent, _data |-> self._data, _key_style |-> self._key_style]

\* a wrong __setstate__: the key style is not restored from the state
Row_setstate_default_style(cls, state) ==
  [cls |-> cls,
   _parent |-> state._parent,
   _data |-> state._data,
   _keymap |-> ParentKeymap(state._parent),
   _key_style |-> KEY_OBJECTS_BUT_WARN]

\* Row.__setstate__ on a new object of class cls
Row_setstate(cls, state) ==
  [cls |-> cls,
   _parent |-> state._parent,
   _data |-> state._data,
   _keymap |-> ParentKeymap(state._parent),
   _key_style |-> state._key_style]

\* rowproxy_reconstructor(cls, state)
rowproxy_reconstructor(cls, state) == Row_setstate(cls, state)

\* BaseRow.__reduce__: the pair (rowproxy_reconstructor, (class, state)); no
\* row is built and self is left as it is
BaseRow_reduce(self) == <<"rowproxy_reconstructor", <<self.cls, Row_getstate(self)>>>>

\* a == b on two tuples
TupleEq(a, b) == Len(a) = Len(b) /\ \A i \in 1 .. Len(a) : a[i] = b[i]

\* a wrong __eq__: rows of different result sets are never equal
Row_eq_same_parent(self, other) ==
  IF other.cls = "Row"
    THEN self._parent = other._parent /\ TupleEq(self._data, other._data)
    ELSE other.cls = "tuple" /\ TupleEq(self._data, other._data)

\* Row._op(self, other, operator.eq): a Row operand is turned into its tuple,
\* any other operand is compared as it is, and a tuple equals only a tuple
Row_eq(self, other) ==
  IF other.cls = "Row"
    THEN TupleEq(self._data, other._data)
    ELSE other.cls = "tuple" /\ TupleEq(self._data, other._data)

RECURSIVE DropNone(_)
DropNone(keys) ==
  IF keys = <<>> THEN <<>>
  ELSE IF Head(keys) = None THEN DropNone(Tail(keys))
  ELSE <<Head(keys)>> \o DropNone(Tail(keys))

\* Row._fields
Row_fields(self) == DropNone(ParentKeys(self._parent))

\* RowMapping.__iter__
RowMapping_iter(self) == DropNone(ParentKeys(self._parent))

\* RowMapping.__len__
RowMapping_len(self) == Len(self._data)

\* RowMapping.keys
RowMapping_keys(self) == ParentKeys(self._parent)

RECURSIVE ItemsFrom(_, _, _)
ItemsFrom(self, keys, acc) ==
  IF keys = <<>> THEN Return(acc, 0)
  ELSE LET got == BaseRow_get_by_key_impl_mapping(self, NameKey(Head(keys)))
       IN  IF got.status = "raise" THEN got
           ELSE ItemsFrom(self, Tail(keys), Append(acc, <<Head(keys), got.value>>))

\* RowMapping.items: the pairs (key, self[key]) for key in self.keys()
RowMapping_items(self) == ItemsFrom(self, RowMapping_keys(self), <<>>)

\* d[k] = v on a dict kept as the sequence of its (key, value) pairs in
\* insertion order
DictSetItem(d, k, v) ==
  IF \E i \in 1 .. Len(d) : d[i][1] = k
    THEN [i \in 1 .. Len(d) |-> IF d[i][1] = k THEN <<k, v>> ELSE d[i]]
    ELSE Append(d, <<k, v>>)

RECURSIVE DictFrom(_, _, _)
DictFrom(m, keys, d) ==
  IF keys = <<>> THEN Return(d, 0)
  ELSE LET got == BaseRow_get_by_key_impl_mapping(m, NameKey(Head(keys)))
       IN  IF got.status = "raise" THEN got
           ELSE DictFrom(m, Tail(keys), DictSetItem(d, Head(keys), got.value))

RECURSIVE DictFromGetitem(_, _, _)
DictFromGetitem(self, keys, d) ==
  IF keys = <<>> THEN Return(d, 0)
  ELSE LET got == BaseRow_get_by_key_impl(self, NameKey(Head(keys)))
       IN  IF got.status = "raise" THEN got
           ELSE DictFromGetitem(self, Tail(keys), DictSetItem(d, Head(keys), got.value))

\* a wrong _asdict: the values are read with the row's own __getitem__
Row_asdict_by_getitem(self) ==
  DictFromGetitem(self, ParentKeys(self._parent), <<>>)

\* Row._asdict: dict(self._mapping), which reads m.keys() and m[k] for each k
Row_asdict(self) ==
  LET m == Row_mapping(self)
  IN  DictFrom(m, RowMapping_keys(m), <<>>)

(***************************************************************************)
(* The inputs of the model                                                 *)
(***************************************************************************)
NCols(p) == Len(ParentKeys(p))

\* the raw rows of n columns
RawData(n) == [1 .. n -> Values]

\* the processor lists for n columns: none, or one entry per column
ProcessorLists(n) == {<<>>} \cup [1 .. n -> Processors]

\* the keys tried on a row of n columns
KeysFor(n) ==
  {IntKey(i) : i \in (0 - n - 1) .. n}
    \cup {FloatKey(i) : i \in 0 .. n}
    \cup {StrKey(s) : s \in {"id", "name", "zz"}}
    \cup {NoneKey}
    \cup {ObjKey(i) : i \in 0 .. n}
    \cup {ColKey(s) : s \in {"id", "name", "zz"}}
    \cup {SliceKey(0, 1), SliceKey(1, n), SliceKey(0, n)}

\* the rows a result set with parent p hands out: the keymap argument is the
\* parent's keymap
RowsOf(p) ==
  {BaseRow_init("Row", p, procs, ParentKeymap(p), ks, data) :
     procs \in ProcessorLists(NCols(p)), ks \in KeyStyles, data \in RawData(NCols(p))}

\* what a row is compared with: rows of any result set, plain tuples and
\* plain lists
Operands ==
  UNION {RowsOf(p) : p \in ParentIds}
    \cup UNION {{[cls |-> c, _data |-> d] : c \in {"tuple", "list"}, d \in RawData(NCols(p))} :
                  p \in ParentIds}

\* the argument tuples (class, state) the unpickler calls the reconstructor
\* with, by result set: those some row of the result set was reduced to
Pickles == [p \in ParentIds |-> {BaseRow_reduce(o)[2] : o \in RowsOf(p)}]

Call(op, self, arg, out) == [op |-> op, self |-> self, arg |-> arg, out |-> out]

(***************************************************************************)
(* The state machine: row is the object the caller holds, last the call    *)
(* that was made last (on self, with arg, with outcome out).               *)
(***************************************************************************)
Init ==
  \E p \in ParentIds, ks \in KeyStyles :
    \E procs \in ProcessorLists(NCols(p)), data \in RawData(NCols(p)) :
      /\ row = BaseRow_init("Row", p, procs, ParentKeymap(p), ks, data)
      /\ last = Call("__init__", row,
                     [parent |-> p, processors |-> procs, key_style |-> ks, data |-> data],
                     Return(row, 0))

FilterOnValues ==
  \E filters \in ProcessorLists(Len(row._data)) :
    /\ row' = BaseRow_filter_on_values(row, filters)
    /\ last' = Call("_filter_on_values", row, filters, Return(row', 0))

Mapping ==
  /\ row.cls = "Row"
  /\ row' = Row_mapping(row)
  /\ last' = Call("_mapping", row, <<>>, Return(row', 0))

\* pickling, first half: __reduce__ hands the pair to its caller and builds
\* nothing
Reduce ==
  /\ row.cls = "Row"
  /\ last' = Call("__reduce__", row, <<>>, Return(BaseRow_reduce(row), 0))
  /\ UNCHANGED row

\* pickling, second half: the unpickler calls rowproxy_reconstructor with the
\* argument tuple of a pickle of the result set, the one just captured or any
\* other; self is the object cls.__new__ made, as __setstate__ leaves it
Reconstruct ==
  \E args \in Pickles[row._parent] :
    /\ row' = rowproxy_reconstructor(args[1], args[2])
    /\ last' = Call("rowproxy_reconstructor", row', args, Return(row', 0))

\* __setstate__ on a live row overwrites its fields in place; self is the
\* object as the call leaves it
SetState ==
  /\ row.cls = "Row"
  /\ \E args \in Pickles[row._parent] :
       /\ row' = Row_setstate(row.cls, args[2])
       /\ last' = Call("__setstate__", row', args[2], Return(None, 0))

GetByKey ==
  \E key \in KeysFor(Len(row._data)) :
    /\ last' = Call("_get_by_key_impl", row, key, BaseRow_get_by_key_impl(row, key))
    /\ UNCHANGED row

GetByKeyMapping ==
  \E key \in KeysFor(Len(row._data)) :
    /\ last' = Call("_get_by_key_impl_mapping", row, key,
                    BaseRow_get_by_key_impl_mapping(row, key))
    /\ UNCHANGED row

GetByInt ==
  \E i \in (0 - Len(row._data) - 1) .. Len(row._data) :
    /\ last' = Call("_get_by_int_impl", row, i, BaseRow_get_by_int_impl(row, i))
    /\ UNCHANGED row

LenCall ==
  /\ last' = Call("__len__", row, <<>>,
                  Return(IF row.cls = "RowMapping" THEN RowMapping_len(row)
                         ELSE BaseRow_len(row), 0))
  /\ UNCHANGED row

HashCall ==
  /\ row.cls = "Row"
  /\ last' = Call("__hash__", row, <<>>, Return(BaseRow_hash(row), 0))
  /\ UNCHANGED row

EqCall ==
  /\ row.cls = "Row"
  /\ \E other \in {o \in Operands : Len(o._data) = Len(row._data)} :
       last' = Call("__eq__", row, other, Return(Row_eq(row, other), 0))
  /\ UNCHANGED row

FieldsCall ==
  /\ row.cls = "Row"
  /\ last' = Call("_fields", row, <<>>, Return(Row_fields(row), 0))
  /\ UNCHANGED row

AsDictCall ==
  /\ row.cls = "Row"
  /\ last' = Call("_asdict", row, <<>>, Row_asdict(row))
  /\ UNCHANGED row

IterCall ==
  /\ row.cls = "RowMapping"
  /\ last' = Call("__iter__", row, <<>>, Return(RowMapping_iter(row), 0))
  /\ UNCHANGED row

KeysCall ==
  /\ row.cls = "RowMapping"
  /\ last' = Call("keys", row, <<>>, Return(RowMapping_keys(row), 0))
  /\ UNCHANGED row

ItemsCall ==
  /\ row.cls = "RowMapping"
  /\ last' = Call("items", row, <<>>, RowMapping_items(row))
  /\ UNCHANGED row

Next ==
  \/ FilterOnValues
  \/ Mapping
  \/ Reduce
  \/ Reconstruct
  \/ SetState
  \/ GetByKey
  \/ GetByKeyMapping
  \/ GetByInt
  \/ LenCall
  \/ HashCall
  \/ EqCall
  \/ FieldsCall
  \/ AsDictCall
  \/ IterCall
  \/ KeysCall
  \/ ItemsCall

Spec == Init /\ [][Next]_vars

(***************************************************************************)
(* Properties                                                              *)
(***************************************************************************)
DerivingOps == {"_filter_on_values", "_mapping"}

\* the calls that set the fields of a row from a captured state
RestoringOps == {"rowproxy_reconstructor", "__setstate__"}

\* the captured state a restoring call was given
RestoredFrom == IF last.op = "__setstate__" THEN last.arg ELSE last.arg[2]

\* the raw values and the processors of the construction recorded in last
ConstructedFrom == IF last.op = "__init__" THEN last.arg.data ELSE last.self._data

ConstructedWith == IF last.op = "__init__" THEN last.arg.processors ELSE last.arg

\* the value column i (1-based) must hold: the processor applied once, if any
ProcessedOnce(i) ==
  IF ConstructedWith # <<>> /\ ConstructedWith[i] # None
    THEN ApplyProc(ConstructedWith[i], ConstructedFrom[i])
    ELSE ConstructedFrom[i]

\* C1: a row constructed from the raw values V (by the constructor or by
\* _filter_on_values), with or without processors, has len(V) values, and
\* position i holds V[i] with the column's processor applied exactly once
C1_LengthAndPositions ==
  last.op \in {"__init__", "_filter_on_values"} =>
    /\ BaseRow_len(row) = Len(ConstructedFrom)
    /\ \A i \in 0 .. Len(ConstructedFrom) - 1 :
         BaseRow_get_by_int_impl(row, i) = Return(ProcessedOnce(i + 1), 0)

C1_Witness ==
  /\ last.op = "__init__"
  /\ last.arg.processors = <<"inc", None>>
  /\ last.arg.data = <<1, 1>>
  /\ row._data = <<0, 1>>

\* key is a name the key index records as ambiguous
IsAmbiguousName(self, key) ==
  /\ key.kind = "str"
  /\ key \in DOMAIN self._keymap
  /\ self._keymap[key][MD_INDEX + 1].isNone

\* position i belongs to a column whose name another column shares
IsCollidingPosition(self, i) ==
  /\ 0 <= i /\ i < Len(self._data)
  /\ ParentKeys(self._parent)[i + 1] # None
  /\ Cardinality(PositionsOf(ParentKeys(self._parent), ParentKeys(self._parent)[i + 1])) > 1

\* C2: keyed access by an ambiguous name raises through the ambiguous-name
\* callback, in _get_by_key_impl under every key style that reaches the
\* lookup and in _get_by_key_impl_mapping under every key style, with no
\* value and no warning; the colliding columns are still read by position
C2_AmbiguousNameRaises ==
  /\ (last.op = "_get_by_key_impl" /\ IsAmbiguousName(last.self, last.arg)
        /\ last.self._key_style # KEY_INTEGER_ONLY)
       => last.out = Raise("AmbiguousName", 0)
  /\ (last.op = "_get_by_key_impl_mapping" /\ IsAmbiguousName(last.self, last.arg))
       => last.out = Raise("AmbiguousName", 0)
  /\ (last.op \in {"_get_by_int_impl", "_get_by_key_impl"}
        /\ IsCollidingPosition(last.self,
                               IF last.op = "_get_by_int_impl" THEN last.arg
                               ELSE IF IsIntKey(last.arg) THEN last.arg.val ELSE 0 - 1))
       => last.out = Return(last.self._data[(IF last.op = "_get_by_int_impl"
                                               THEN last.arg ELSE last.arg.val) + 1], 0)

C2_Witness ==
  /\ last.op = "_get_by_key_impl"
  /\ last.self._key_style = KEY_OBJECTS_BUT_WARN
  /\ last.arg = StrKey("id")
  /\ ParentKeys(last.self._parent) = <<"id", "name", "id">>
  /\ last.out.exc = "AmbiguousName"

\* C3 (as claimed): a key the key style forbids is reported as a
\* type-mismatch-class error: an integer position of the row given to the
\* lookup of a mapping view under KEY_OBJECTS_ONLY, and a non-integer key
\* given to _get_by_key_impl under KEY_INTEGER_ONLY
C3_KeyRejectedIsTypeMismatch ==
  /\ (last.op = "_get_by_key_impl_mapping" /\ last.self.cls = "RowMapping"
        /\ last.self._key_style = KEY_OBJECTS_ONLY
        /\ IsIntKey(last.arg) /\ 0 <= last.arg.val /\ last.arg.val < Len(last.self._data))
       => (last.out.status = "raise" /\ ExcClass(last.out.exc) = "type-mismatch")
  /\ (last.op = "_get_by_key_impl" /\ last.self._key_style = KEY_INTEGER_ONLY
        /\ ~IsIntKey(last.arg))
       => (last.out.status = "raise" /\ ExcClass(last.out.exc) = "type-mismatch")

\* key is a non-None column name that no other column shares
IsDistinctName(self, key) ==
  /\ key.kind = "str"
  /\ key \in DOMAIN self._keymap
  /\ ~self._keymap[key][MD_INDEX + 1].isNone

\* C4 (as claimed): for every row, _get_by_key_impl by a distinct non-None
\* column name returns the value _get_by_key_impl returns for the position
\* the key index resolves the name to; an integer key is read as values[key]
\* under every key style
C4_NameAgreesEveryRow ==
  /\ (last.op = "_get_by_key_impl" /\ IsDistinctName(last.self, last.arg))
       => LET p == last.self._keymap[last.arg][MD_INDEX + 1].val
              byPos == BaseRow_get_by_key_impl(last.self, IntKey(p))
          IN  /\ byPos = Return(last.self._data[p + 1], 0)
              /\ last.out.status = "return"
              /\ last.out.value = byPos.value
  /\ (last.op = "_get_by_key_impl" /\ IsIntKey(last.arg)
        /\ 0 <= last.arg.val /\ last.arg.val < Len(last.self._data))
       => last.out = Return(last.self._data[last.arg.val + 1], 0)

\* C4 (amended): the same for every row whose key style is not
\* KEY_INTEGER_ONLY; under KEY_INTEGER_ONLY the name is rejected with a
\* TypeError while the position is still read; an integer key is read as
\* values[key] under every key style
C4_NameAgreesWithPosition ==
  /\ (last.op = "_get_by_key_impl" /\ IsDistinctName(last.self, last.arg))
       => LET p == last.self._keymap[last.arg][MD_INDEX + 1].val
              byPos == BaseRow_get_by_key_impl(last.self, IntKey(p))
          IN  /\ byPos = Return(last.self._data[p + 1], 0)
              /\ last.self._key_style # KEY_INTEGER_ONLY =>
                   /\ last.out.status = "return"
                   /\ last.out.value = byPos.value
              /\ last.self._key_style = KEY_INTEGER_ONLY =>
                   last.out = Raise("TypeError", 0)
  /\ (last.op = "_get_by_key_impl" /\ IsIntKey(last.arg)
        /\ 0 <= last.arg.val /\ last.arg.val < Len(last.self._data))
       => last.out = Return(last.self._data[last.arg.val + 1], 0)

C4_Witness ==
  /\ last.op = "_get_by_key_impl"
  /\ last.arg = StrKey("name")
  /\ ParentKeys(last.self._parent) = <<"id", "name">>
  /\ last.self._data = <<0, 1>>
  /\ last.self._key_style = KEY_OBJECTS_NO_WARN
  /\ last.out = Return(1, 0)

\* C5: the state __reduce__ captures holds exactly _parent, _data and
\* _key_style, taken from the row, which it leaves as it is; a row restored
\* from a captured state has the state's parent, values and key style and
\* its parent's keymap as key index; and the row restored from the state
\* just captured has the class, parent, values, key style and hash of the
\* original and compares equal to it
C5_PickleRoundTrip ==
  /\ [](/\ last.op = "__reduce__" =>
             /\ row = last.self
             /\ last.out.value[1] = "rowproxy_reconstructor"
             /\ last.out.value[2][1] = last.self.cls
             /\ DOMAIN last.out.value[2][2] = {"_parent", "_data", "_key_style"}
             /\ last.out.value[2][2]._parent = last.self._parent
             /\ last.out.value[2][2]._data = last.self._data
             /\ last.out.value[2][2]._key_style = last.self._key_style
        /\ last.op \in RestoringOps =>
             /\ row._parent = RestoredFrom._parent
             /\ row._data = RestoredFrom._data
             /\ row._key_style = RestoredFrom._key_style
             /\ row._keymap = ParentKeymap(RestoredFrom._parent))
  /\ [][(/\ last.op = "__reduce__"
          /\ last'.op = "rowproxy_reconstructor"
          /\ last'.arg = last.out.value[2])
         => /\ row'.cls = row.cls
            /\ row'._parent = row._parent
            /\ row'._data = row._data
            /\ row'._key_style = row._key_style
            /\ BaseRow_hash(row') = BaseRow_hash(row)
            /\ Row_eq(row', row)
            /\ row'._keymap = ParentKeymap(row._parent)]_vars

C5_Witness ==
  /\ last.op = "rowproxy_reconstructor"
  /\ last.arg[2]._key_style = KEY_OBJECTS_NO_WARN
  /\ last.arg[2]._data = <<1, 0>>
  /\ row._key_style = KEY_OBJECTS_NO_WARN
  /\ row._data = <<1, 0>>

\* C6 (as claimed): == between a row and another row or a plain ordered
\* sequence (a tuple or a list) is the equality of the values, whatever the
\* parents and key styles, and rows with equal values have equal hashes
C6_EqualityAnySequence ==
  /\ last.op = "__eq__" => last.out.value = (last.self._data = last.arg._data)
  /\ last.op = "__hash__" =>
       \A other \in Operands :
         (other.cls = "Row" /\ other._data = last.self._data)
           => BaseRow_hash(other) = last.out.value

\* C6 (amended): == between a row and another row or a plain tuple is the
\* equality of the values, whatever the parents and key styles; == against a
\* list is false; rows with equal values have equal hashes
C6_EqualityOnValuesOnly ==
  /\ (last.op = "__eq__" /\ last.arg.cls \in {"Row", "tuple"})
       => last.out.value = (last.self._data = last.arg._data)
  /\ (last.op = "__eq__" /\ last.arg.cls = "list") => last.out.value = FALSE
  /\ last.op = "__hash__" =>
       \A other \in Operands :
         (other.cls = "Row" /\ other._data = last.self._data)
           => BaseRow_hash(other) = last.out.value

C6_Witness ==
  /\ last.op = "__eq__"
  /\ last.self._key_style = KEY_INTEGER_ONLY
  /\ last.arg = [cls |-> "tuple", _data |-> <<1, 0>>]
  /\ last.self._data = <<1, 0>>
  /\ last.out.value = TRUE

\* the record a non-integer key resolves to, through the keymap or the fallback
Resolution(self, key) ==
  LET got == DictGetItem(self._keymap, key)
      fb == ParentKeyFallback(self._parent, key)
  IN  IF got.status = "found" THEN [found |-> TRUE, rec |-> got.rec]
      ELSE IF got.status = "KeyError" /\ fb.found THEN [found |-> TRUE, rec |-> fb.rec]
      ELSE [found |-> FALSE, rec |-> AmbiguousRec]

\* the call in last must warn: KEY_OBJECTS_BUT_WARN, a non-integer key, a
\* non-ambiguous position that is not equal to the key
MustWarn ==
  /\ last.self._key_style = KEY_OBJECTS_BUT_WARN
  /\ ~IsIntKey(last.arg)
  /\ Resolution(last.self, last.arg).found
  /\ ~Resolution(last.self, last.arg).rec[MD_INDEX + 1].isNone
  /\ ~(last.arg.kind = "float"
         /\ last.arg.val = Resolution(last.self, last.arg).rec[MD_INDEX + 1].val)

\* C7: _get_by_key_impl calls the warning callback exactly when MustWarn
\* holds, once, and then still returns the value at the resolved position
C7_WarnExactlyWhen ==
  last.op = "_get_by_key_impl" =>
    /\ last.out.warned = (IF MustWarn THEN 1 ELSE 0)
    /\ MustWarn =>
         last.out = Return(last.self._data[Resolution(last.self, last.arg).rec[MD_INDEX + 1].val + 1], 1)

C7_Witness ==
  /\ last.op = "_get_by_key_impl"
  /\ last.self._key_style = KEY_OBJECTS_BUT_WARN
  /\ last.arg = StrKey("name")
  /\ last.self._data = <<0, 1>>
  /\ last.out = Return(1, 1)

\* C8: _mapping of a row of any key style returns a RowMapping with the
\* parent, the values and the keymap of the row and key style
\* KEY_OBJECTS_ONLY; the row it was taken from is as before the call
C8_MappingSharesRow ==
  last.op = "_mapping" =>
    /\ row.cls = "RowMapping"
    /\ row._parent = last.self._parent
    /\ row._data = last.self._data
    /\ row._keymap = last.self._keymap
    /\ row._key_style = KEY_OBJECTS_ONLY
    /\ last.out.value = row

C8_Witness ==
  /\ last.op = "_mapping"
  /\ last.self._key_style = KEY_OBJECTS_NO_WARN
  /\ last.self._data = <<1, 0>>
  /\ row._key_style = KEY_OBJECTS_ONLY

\* the keys of a dict, in insertion order
DictKeys(d) == [i \in 1 .. Len(d) |-> d[i][1]]

\* every column of the parent has a non-None name that no other column shares
AllNamesDistinct(p) ==
  \A i \in 1 .. NCols(p) :
    /\ ParentKeys(p)[i] # None
    /\ Cardinality(PositionsOf(ParentKeys(p), ParentKeys(p)[i])) = 1

\* the non-None column names of a parent, in the parent's order
NonNullNames(p) == SelectSeq(ParentKeys(p), LAMBDA k : k # None)

\* the pairs (name, value at the name's position) for the non-None names
ExpectedItems(self) ==
  LET names == NonNullNames(self._parent)
  IN  [i \in 1 .. Len(names) |->
         <<names[i],
           self._data[(CHOOSE q \in PositionsOf(ParentKeys(self._parent), names[i]) : TRUE) + 1]>>]

\* C9 (as claimed): for every row _asdict returns the dict of the names the
\* mapping view iterates, each with the value at its position, and keys()
\* and items() of the mapping view report the same names
C9_AsDictEveryRow ==
  /\ last.op = "_asdict" => last.out = Return(ExpectedItems(last.self), 0)
  /\ last.op = "__iter__" => last.out.value = NonNullNames(last.self._parent)
  /\ last.op = "keys" => last.out.value = NonNullNames(last.self._parent)
  /\ last.op = "items" => last.out = Return(ExpectedItems(last.self), 0)

\* C9 (amended): the same, for the rows whose parent has only non-None column
\* names that no two columns share
C9_AsDictDistinctNames ==
  /\ (last.op = "_asdict" /\ AllNamesDistinct(last.self._parent))
       => /\ last.out = Return(ExpectedItems(last.self), 0)
          /\ DictKeys(last.out.value) = RowMapping_iter(Row_mapping(last.self))
          /\ DictKeys(last.out.value) = RowMapping_keys(Row_mapping(last.self))
  /\ last.op = "__iter__" => last.out.value = NonNullNames(last.self._parent)
  /\ (last.op = "keys" /\ AllNamesDistinct(last.self._parent))
       => last.out.value = NonNullNames(last.self._parent)
  /\ (last.op = "items" /\ AllNamesDistinct(last.self._parent))
       => last.out = Return(ExpectedItems(last.self), 0)

C9_Witness ==
  /\ last.op = "_asdict"
  /\ ParentKeys(last.self._parent) = <<"name", "id">>
  /\ last.self._key_style = KEY_INTEGER_ONLY
  /\ last.self._data = <<0, 1>>
  /\ last.out = Return(<< <<"name", 0>>, <<"id", 1>> >>, 0)

\* C10: the key index of every row is its parent's keymap, after
\* construction, _filter_on_values, _mapping, capture and restore alike; a
\* row derived by _filter_on_values or _mapping has the parent and the key
\* index of the row it was derived from, and its key style (_mapping
\* excepted); a restored row has the parent and the key style of the
\* captured state; the row an operation is called on is not changed by it,
\* capture included (only a restoring call sets fields)
C10_KeyIndexIsParents ==
  /\ [](/\ row._keymap = ParentKeymap(row._parent)
        /\ last.op \in DerivingOps =>
             /\ row._parent = last.self._parent
             /\ row._keymap = last.self._keymap
             /\ last.op # "_mapping" => row._key_style = last.self._key_style
        /\ last.op \in RestoringOps =>
             /\ row._parent = RestoredFrom._parent
             /\ row._key_style = RestoredFrom._key_style)
  /\ [][/\ last'.op \notin RestoringOps => last'.self = row
        /\ last'.op \notin DerivingOps \cup RestoringOps => row' = row]_vars

C10_Witness ==
  /\ last.op = "_filter_on_values"
  /\ last.arg = <<"inc", None>>
  /\ last.self._key_style = KEY_OBJECTS_NO_WARN
  /\ last.self._data = <<1, 1>>
  /\ row._data = <<0, 1>>
  /\ row._key_style = KEY_OBJECTS_NO_WARN

====
